---- MODULE Spec2Model ----
(***************************************************************************)
(* Model of simulation/simulation.go: the Simulation aggregate, its        *)
(* clock loop (Initialize / Start / run / Pause / sendEvent /              *)
(* increaseTime) and its scenario decoder (UnmarshalJSON /                 *)
(* checkTrackItemsLinks).                                                  *)
(***************************************************************************)
EXTENDS Integers, Sequences, FiniteSets, TLC

\* ------------------------------------------------------------------------
\* Bounds of the model
\* ------------------------------------------------------------------------
MaxInit == 2      \* Initialize calls
MaxStart == 2     \* Start calls (one ticker and one clock loop each)
MaxPause == 2     \* Pause calls
MaxFires == 2     \* ticks delivered by the runtime timers, all tickers together
MaxItems == 2     \* entries of the document's trackItems mapping
MaxRoutes == 1    \* entries of the document's routes mapping
MaxTrains == 3    \* trains of the document

\* const timeStep = 500 * time.Millisecond, in milliseconds
timeStep == 500

\* Options.CurrentTime as the decoded scenario left it, in milliseconds
StartTimes == {21600000}

\* the nil channel / nil ticker
Nil == 0

\* a value of CurrentTime read while another task is writing it
Torn == -1

VARIABLES
    EventChan,      \* sim.EventChan: Nil or the identity of the channel
    stopChan,       \* sim.stopChan: Nil or the identity of the channel
    messages,       \* number of notices in sim.MessageLogger
    clockTicker,    \* sim.clockTicker: Nil or the identity of the ticker
    tickers,        \* the tickers created so far: <<[running, buf]>>
    loops,          \* the run() goroutines started so far: <<[pc, stopCh, tk]>>
    CurrentTime,    \* sim.Options.CurrentTime
    lockHolder,     \* holder of the CurrentTime lock: Nil or a loop
    tasks,          \* the emission goroutines: <<[payload, ch, rcvd]>>
    received,       \* what the subscriber took from the event channels, in order
    pausers,        \* Pause calls blocked in their send: channel -> how many
    crashed,        \* the process has panicked
    \* history
    startTime,      \* CurrentTime at construction
    startCalls,     \* Start calls made so far
    fires,          \* ticks the timers delivered so far
    ticksTaken,     \* ticks the clock loops received so far
    pauseCalls,     \* Pause calls made so far
    pausesDone,     \* Pause calls that returned
    sincePause,     \* a Pause returned and no Start was called since
    alternating,    \* every Start but the first came after a returned Pause
    \* scenario decoding
    doc,            \* the scenario document handed to UnmarshalJSON
    sim             \* what UnmarshalJSON left in the Simulation, and its error

chanVars == <<EventChan, stopChan, messages>>
tickerVars == <<clockTicker, tickers, fires>>
timeVars == <<CurrentTime, lockHolder, startTime>>
eventVars == <<tasks, received>>
pauseVars == <<pausers, pauseCalls, pausesDone>>
startVars == <<startCalls, crashed, alternating>>
clockVars == <<chanVars, tickerVars, timeVars, eventVars, pauseVars, startVars,
               loops, ticksTaken, sincePause>>
decodeVars == <<doc, sim>>
vars == <<clockVars, decodeVars>>

\* ------------------------------------------------------------------------
\* Helpers
\* ------------------------------------------------------------------------
Chans == 0..MaxInit

LoopIds == DOMAIN loops
TickerIds == DOMAIN tickers
TaskIds == DOMAIN tasks

\* a loop that can still take a tick
Active(l) == loops[l].pc \notin {"stop", "done"}

ActiveLoops == {l \in LoopIds : Active(l)}

Pending == {i \in TaskIds : ~tasks[i].rcvd}

Blocked == {c \in Chans : pausers[c] > 0}

\* the payloads handed to sendEvent, in emission order
emitted == [i \in TaskIds |-> tasks[i].payload]

\* ------------------------------------------------------------------------
\* Scenario decoding: strings, keys and the document
\* ------------------------------------------------------------------------
\* strings are sequences of one-character strings
Quote == "\""

Digits == <<"0", "1", "2", "3", "4", "5", "6", "7", "8", "9">>

IsDigit(c) == \E d \in 1..10 : Digits[d] = c

DigitVal(c) == (CHOOSE d \in 1..10 : Digits[d] = c) - 1

RECURSIVE TrimLeft(_, _)
TrimLeft(s, c) == IF s # <<>> /\ Head(s) = c THEN TrimLeft(Tail(s), c) ELSE s

RECURSIVE TrimRight(_, _)
TrimRight(s, c) ==
    IF s # <<>> /\ s[Len(s)] = c THEN TrimRight(SubSeq(s, 1, Len(s) - 1), c) ELSE s

\* strings.Trim(s, c): s without its leading and trailing characters c
Trim(s, c) == TrimRight(TrimLeft(s, c), c)

RECURSIVE DigitsValue(_, _)
DigitsValue(s, acc) ==
    IF s = <<>> THEN acc ELSE DigitsValue(Tail(s), 10 * acc + DigitVal(Head(s)))

\* strconv.Atoi: an optional sign, then one or more decimal digits
Atoi(s) ==
    LET signed == s # <<>> /\ Head(s) \in {"+", "-"}
        ds == IF signed THEN Tail(s) ELSE s
    IN  IF ds = <<>> \/ \E i \in 1..Len(ds) : ~IsDigit(ds[i])
        THEN [ok |-> FALSE, val |-> 0]
        ELSE [ok |-> TRUE,
              val |-> IF signed /\ Head(s) = "-" THEN 0 - DigitsValue(ds, 0)
                      ELSE DigitsValue(ds, 0)]

\* the characters of the service codes, in byte order
Alphabet == <<"1", "2", "C", "E", "G", "I", "P", "R", "X">>

\* the discriminators of the track-item variants, and the kind tag of each
TrackTypes == {"LineItem", "InvisibleLinkItem", "EndItem", "PlatformItem",
               "TextItem", "PointsItem", "SignalItem"}

KindOf(type) ==
    CASE type = "LineItem" -> "lineItem"
      [] type = "InvisibleLinkItem" -> "invisibleLinkItem"
      [] type = "EndItem" -> "endItem"
      [] type = "PlatformItem" -> "platformItem"
      [] type = "TextItem" -> "textItem"
      [] type = "PointsItem" -> "pointsItem"
      [] type = "SignalItem" -> "signalItem"

\* an entry of the trackItems mapping:
\*   readable  it decodes into a map of raw fields (it is a JSON object)
\*   type      its __type__ field ("" when it has none)
\*   body      it decodes into the target its type selects
\*   rev, next, prev   what it declares about its links (TRUE: set)
\*   code      its place code, for a Place
Entry(readable, type, body, rev, next, prev) ==
    [readable |-> readable, type |-> type, body |-> body,
     rev |-> rev, next |-> next, prev |-> prev, code |-> "STN"]

\* the entries of the documents: every combination of links for a line and
\* for a points item, and for the other kinds the combinations that tell
\* their rule apart; a Place that decodes and one that does not; a line
\* whose body does not decode; an unknown type, no type, and a value that
\* is not an object
Entries ==
    {Entry(TRUE, "LineItem", TRUE, FALSE, n, p) : n \in BOOLEAN, p \in BOOLEAN}
    \cup {Entry(TRUE, "PointsItem", TRUE, r, n, p) :
            r \in BOOLEAN, n \in BOOLEAN, p \in BOOLEAN}
    \cup {e \in {Entry(TRUE, t, TRUE, FALSE, n, p) :
                    t \in {"InvisibleLinkItem", "SignalItem"},
                    n \in BOOLEAN, p \in BOOLEAN} : e.next \/ e.prev}
    \cup {Entry(TRUE, "EndItem", TRUE, FALSE, FALSE, p) : p \in BOOLEAN}
    \cup {Entry(TRUE, "PlatformItem", TRUE, FALSE, b, b) : b \in BOOLEAN}
    \cup {Entry(TRUE, "TextItem", TRUE, FALSE, FALSE, FALSE)}
    \cup {Entry(TRUE, "Place", b, FALSE, FALSE, FALSE) : b \in BOOLEAN}
    \cup {Entry(TRUE, "LineItem", FALSE, FALSE, TRUE, TRUE),
          Entry(TRUE, "SwitchItem", TRUE, FALSE, TRUE, TRUE),
          Entry(TRUE, "", TRUE, FALSE, TRUE, TRUE),
          Entry(FALSE, "", FALSE, FALSE, FALSE, FALSE)}

\* the keys of the trackItems mapping: 1, 01, "2" (with its quotes) and x
ItemKeys == {<<"1">>, <<"0", "1">>, <<Quote, "2", Quote>>, <<"x">>}

\* the keys of the routes mapping: 7 and r
RouteKeys == {<<"7">>, <<"r">>}

\* the mappings of at most n keys of K into V
Mappings(K, V, n) ==
    UNION {[D -> V] : D \in {D \in SUBSET K : Cardinality(D) <= n}}

\* the sequences that enumerate the set S once: the orders in which a range
\* loop may visit the keys of a map
Orders(S) ==
    {o \in [1..Cardinality(S) -> S] : \A x \in S : \E i \in DOMAIN o : o[i] = x}

\* service codes, as strings: ICE1, ICE2, REG1, REG2, EXP1
ICE1 == <<"I", "C", "E", "1">>
ICE2 == <<"I", "C", "E", "2">>
REG1 == <<"R", "E", "G", "1">>
REG2 == <<"R", "E", "G", "2">>
EXP1 == <<"E", "X", "P", "1">>

\* the services of the document: code -> scheduled departure times of its
\* line stops, in minutes after midnight
DocServices ==
    (ICE1 :> <<>>) @@ (ICE2 :> <<>>) @@ (REG1 :> <<480, 495>>)
        @@ (REG2 :> <<540>>) @@ (EXP1 :> <<420>>)

Train(code) == [ServiceCode |-> code]

RECURSIVE SeqsUpTo(_, _)
SeqsUpTo(S, n) ==
    IF n = 0 THEN {<<>>}
    ELSE LET shorter == SeqsUpTo(S, n - 1)
         IN  shorter \cup {Append(q, x) : q \in {q \in shorter : Len(q) = n - 1}, x \in S}

TrainLists == SeqsUpTo({Train(c) : c \in DOMAIN DocServices}, MaxTrains)

\* a network that passes validation, one route and two trains
BaseItems ==
    (<<"1">> :> Entry(TRUE, "LineItem", TRUE, FALSE, TRUE, TRUE))
        @@ (<<Quote, "2", Quote>> :> Entry(TRUE, "Place", TRUE, FALSE, FALSE, FALSE))
BaseRoutes == (<<"7">> :> "route")
BaseTrains == <<Train(ICE1), Train(REG1)>>

\* a document:
\*   envelope    it decodes into the auxSim structure
\*   trackItems, routes, trains   its fields (its services are DocServices)
Doc(envelope, items, routes, trains) ==
    [envelope |-> envelope, trackItems |-> items, routes |-> routes,
     trains |-> trains]

\* the documents decoded: every trackItems mapping with the base routes and
\* trains; every routes mapping and train list with the base network; and
\* documents whose envelope does not decode
Docs ==
    {Doc(TRUE, m, BaseRoutes, BaseTrains) : m \in Mappings(ItemKeys, Entries, MaxItems)}
    \cup {Doc(TRUE, BaseItems, r, t) :
            r \in Mappings(RouteKeys, {"route"}, MaxRoutes), t \in TrainLists}
    \cup {Doc(FALSE, m, BaseRoutes, BaseTrains) : m \in Mappings(ItemKeys, Entries, 1)}

\* ------------------------------------------------------------------------
\* Scenario decoding: UnmarshalJSON
\* ------------------------------------------------------------------------

\* errors: nil, the fmt.Errorf errors of the decoder by the stage that made
\* them, and ItemNotLinkedAtError{item, pt}
NoError == [kind |-> "nil", key |-> <<>>, id |-> 0, pt |-> ""]

StageError(kind, key) == [kind |-> kind, key |-> key, id |-> 0, pt |-> ""]

ItemNotLinkedAtError(ti, pt) ==
    [kind |-> "ItemNotLinkedAtError", key |-> ti.key, id |-> ti.ID, pt |-> pt]

\* the Simulation before UnmarshalJSON; assigned holds the fields the later
\* stages have set, dropped the errors that were built and not returned,
\* visited the trackItems keys the loop has taken, in order
ZeroSim ==
    [TrackItems |-> <<>>, Places |-> <<>>, Routes |-> <<>>, initialized |-> {},
     Trains |-> <<>>, assigned |-> {}, visited |-> <<>>, dropped |-> {},
     validated |-> FALSE, linkErr |-> NoError, err |-> NoError,
     returned |-> FALSE]

\* a track item decoded from entry e under key k, with its ID
TrackItem(k, e, id) ==
    [ID |-> id, kind |-> KindOf(e.type), key |-> k,
     rev |-> e.rev, next |-> e.next, prev |-> e.prev]

\* the link accessors of a track item: TRUE when the linked item is not nil
ReverseItem(ti) == ti.rev
NextItem(ti) == ti.next
PreviousItem(ti) == ti.prev

\* the closure unmarshalItem, called on s with key k and entry e: what it
\* leaves in the simulation, and the error it returns
unmarshalItem(s, k, e) ==
    LET conv == Atoi(Trim(k, Quote))
    IN  IF ~e.body
        THEN [s |-> s, err |-> StageError("decode", k)]
        ELSE IF ~conv.ok
        THEN [s |-> s, err |-> StageError("convert", k)]
        ELSE [s |-> [s EXCEPT !.TrackItems =
                        (conv.val :> TrackItem(k, e, conv.val)) @@ @],
              err |-> NoError]

\* a case of the type switch calls unmarshalItem(&ti) as a statement: the
\* error it returns is not looked at
callDiscards(r) ==
    IF r.err = NoError THEN r.s ELSE [r.s EXCEPT !.dropped = @ \cup {r.err}]

itemStepSkipsUnknown(s0, k, e) ==
    LET s == [s0 EXCEPT !.visited = Append(@, k)]
    IN  IF ~e.readable
        THEN [s EXCEPT !.err = StageError("read", k)]
        ELSE CASE e.type \in TrackTypes ->
                    callDiscards(unmarshalItem(s, k, e))
               [] e.type = "Place" ->
                    IF ~e.body
                    THEN [s EXCEPT !.err = StageError("place", k)]
                    ELSE [s EXCEPT !.Places = (e.code :> k) @@ @]
               [] OTHER -> s

\* the body of the loop over rawSim.TrackItems for key k: the simulation
\* after it, with err set when the body returns from UnmarshalJSON
itemStep(s0, k, e) ==
    LET s == [s0 EXCEPT !.visited = Append(@, k)]
    IN  IF ~e.readable
        THEN [s EXCEPT !.err = StageError("read", k)]
        ELSE CASE e.type \in TrackTypes ->
                    callDiscards(unmarshalItem(s, k, e))
               [] e.type = "Place" ->
                    IF ~e.body
                    THEN [s EXCEPT !.err = StageError("place", k)]
                    ELSE [s EXCEPT !.Places = (e.code :> k) @@ @]
               [] OTHER ->
                    [s EXCEPT !.err = StageError("unknown", k)]

\* the loop over rawSim.TrackItems, visiting the keys in the order given
RECURSIVE itemLoop(_, _, _)
itemLoop(s, items, order) ==
    IF order = <<>> \/ s.err # NoError
    THEN s
    ELSE itemLoop(itemStep(s, Head(order), items[Head(order)]), items, Tail(order))

\* checkTrackItemsLinks, the third case of the switch
checkOrigin(ti) ==
    IF ~PreviousItem(ti) THEN ItemNotLinkedAtError(ti, "origin") ELSE NoError

checkEndOnly(ti) ==
    IF ~NextItem(ti) THEN ItemNotLinkedAtError(ti, "end") ELSE NoError

\* checkTrackItemsLinks, the second case of the switch and its fallthrough
checkEnd(ti) ==
    IF ~NextItem(ti) THEN ItemNotLinkedAtError(ti, "end") ELSE checkOrigin(ti)

checkEndFirst(ti) ==
    IF ~NextItem(ti) THEN ItemNotLinkedAtError(ti, "end")
    ELSE IF ~ReverseItem(ti) THEN ItemNotLinkedAtError(ti, "reverse")
    ELSE checkOrigin(ti)

\* checkTrackItemsLinks, the first two cases of the switch and the
\* fallthrough of the points case
checkReverse(ti) ==
    IF ~ReverseItem(ti) THEN ItemNotLinkedAtError(ti, "reverse") ELSE checkEnd(ti)

\* checkTrackItemsLinks, the body of its loop for track item ti
checkItem(ti) ==
    CASE ti.kind \in {"place", "platformItem", "textItem"} -> NoError
      [] ti.kind = "pointsItem" -> checkReverse(ti)
      [] ti.kind \in {"lineItem", "invisibleLinkItem", "signalItem"} -> checkEnd(ti)
      [] ti.kind = "endItem" -> checkOrigin(ti)
      [] OTHER -> NoError

\* checkTrackItemsLinks, visiting the ids in the order given: the first
\* error met, or nil
RECURSIVE checkTrackItemsLinks(_, _)
checkTrackItemsLinks(items, order) ==
    IF order = <<>>
    THEN NoError
    ELSE LET e == checkItem(items[Head(order)])
         IN  IF e # NoError THEN e ELSE checkTrackItemsLinks(items, Tail(order))

\* the loop over rawSim.Routes, visiting the keys in the order given
RECURSIVE routeLoop(_, _)
routeLoop(s, order) ==
    IF order = <<>> \/ s.err # NoError
    THEN s
    ELSE LET num == Head(order)
             conv == Atoi(num)
             s1 == [s EXCEPT !.initialized = @ \cup {num}]
         IN  IF ~conv.ok
             THEN [s1 EXCEPT !.err = StageError("route", num)]
             ELSE routeLoop([s1 EXCEPT !.Routes = (conv.val :> num) @@ @], Tail(order))

\* string comparison, byte by byte
RECURSIVE StrLess(_, _)
StrLess(a, b) ==
    IF b = <<>> THEN FALSE
    ELSE IF a = <<>> THEN TRUE
    ELSE IF Head(a) # Head(b)
    THEN \E i, j \in 1..Len(Alphabet) :
            Alphabet[i] = Head(a) /\ Alphabet[j] = Head(b) /\ i < j
    ELSE StrLess(Tail(a), Tail(b))

lessByServiceCode(a, b) == StrLess(a.ServiceCode, b.ServiceCode)

\* Train.Service().Lines
Lines(t) == DocServices[t.ServiceCode]

\* the comparator handed to sort.Slice
less(a, b) ==
    CASE Len(Lines(a)) = 0 /\ Len(Lines(b)) = 0 -> StrLess(a.ServiceCode, b.ServiceCode)
      [] Len(Lines(a)) = 0 -> FALSE
      [] Len(Lines(b)) = 0 -> TRUE
      [] OTHER -> Lines(a)[1] - Lines(b)[1] < 0

\* what sort.Slice may leave: the trains in an order the comparator accepts
\* (the sort is not stable: trains that compare equal come in any order)
Sorted(trains) ==
    {[i \in DOMAIN trains |-> trains[o[i]]] : o \in
        {o \in Orders(DOMAIN trains) :
            \A i, j \in DOMAIN trains : i < j => ~less(trains[o[j]], trains[o[i]])}}

\* UnmarshalJSON after the track-item loop, on the simulation s it left
laterStages(s, linkOrder, routeOrder, trains) ==
    LET linkErr == checkTrackItemsLinks(s.TrackItems, linkOrder)
        s1 == [s EXCEPT !.validated = TRUE, !.linkErr = linkErr]
    IN  IF linkErr # NoError
        THEN [s1 EXCEPT !.err = linkErr]
        ELSE LET s2 == routeLoop([s1 EXCEPT !.assigned = @ \cup {"Options", "SignalLib", "Routes"}],
                                 routeOrder)
             IN  IF s2.err # NoError
                 THEN s2
                 ELSE [s2 EXCEPT !.assigned = @ \cup {"TrainTypes", "Services", "Trains", "MessageLogger"},
                                 !.Trains = trains]

\* UnmarshalJSON
UnmarshalJSON ==
    /\ ~sim.returned
    /\ IF ~doc.envelope
       THEN sim' = [sim EXCEPT !.err = StageError("envelope", <<>>), !.returned = TRUE]
       ELSE \E itemOrder \in Orders(DOMAIN doc.trackItems) :
              LET s == itemLoop(sim, doc.trackItems, itemOrder)
              IN  IF s.err # NoError
                  THEN sim' = [s EXCEPT !.returned = TRUE]
                  ELSE \E linkOrder \in Orders(DOMAIN s.TrackItems),
                          routeOrder \in Orders(DOMAIN doc.routes),
                          trains \in Sorted(doc.trains) :
                         sim' = [laterStages(s, linkOrder, routeOrder, trains)
                                    EXCEPT !.returned = TRUE]
    /\ UNCHANGED <<clockVars, doc>>

\* ------------------------------------------------------------------------
\* The clock
\* ------------------------------------------------------------------------
ClockInit ==
    /\ EventChan = Nil
    /\ stopChan = Nil
    /\ messages = 0
    /\ clockTicker = Nil
    /\ tickers = <<>>
    /\ loops = <<>>
    /\ startTime \in StartTimes
    /\ CurrentTime = startTime
    /\ lockHolder = Nil
    /\ tasks = <<>>
    /\ received = <<>>
    /\ pausers = [c \in Chans |-> 0]
    /\ crashed = FALSE
    /\ startCalls = 0
    /\ fires = 0
    /\ ticksTaken = 0
    /\ pauseCalls = 0
    /\ pausesDone = 0
    /\ sincePause = FALSE
    /\ alternating = TRUE

\* Initialize: addMessage, then two fresh unbuffered channels
Initialize ==
    /\ ~crashed
    /\ messages < MaxInit
    /\ messages' = messages + 1
    /\ EventChan' = messages + 1
    /\ stopChan' = messages + 1
    /\ UNCHANGED <<decodeVars, tickerVars, timeVars, eventVars, pauseVars, startVars,
                   loops, ticksTaken, sincePause>>

StartNeverPanics == FALSE

\* the condition of the panic in Start
StartPanics == stopChan = Nil \/ EventChan = Nil

\* time.NewTicker(timeStep): a running ticker whose channel (capacity 1) is empty
NewTicker == [running |-> TRUE, buf |-> 0]

\* go sim.run(): a goroutine at the top of its for loop
NewLoop == [pc |-> "for", stopCh |-> Nil, tk |-> Nil]

Start ==
    /\ ~crashed
    /\ startCalls < MaxStart
    /\ startCalls' = startCalls + 1
    /\ IF StartPanics
       THEN /\ crashed' = TRUE
            /\ UNCHANGED <<clockTicker, tickers, loops, sincePause, alternating>>
       ELSE /\ tickers' = Append(tickers, NewTicker)
            /\ clockTicker' = Len(tickers) + 1
            /\ loops' = Append(loops, NewLoop)
            /\ sincePause' = FALSE
            /\ alternating' = (alternating /\ (loops = <<>> \/ sincePause))
            /\ UNCHANGED crashed
    /\ UNCHANGED <<decodeVars, chanVars, timeVars, eventVars, pauseVars, fires, ticksTaken>>

\* the runtime timer of ticker t: a tick is put in the ticker's channel; a
\* tick that finds the channel full is dropped
TimerFire(t) ==
    /\ ~crashed
    /\ fires < MaxFires
    /\ tickers[t].running
    /\ tickers[t].buf = 0
    /\ tickers' = [tickers EXCEPT ![t].buf = 1]
    /\ fires' = fires + 1
    /\ UNCHANGED <<decodeVars, chanVars, clockTicker, timeVars, eventVars, pauseVars,
                   startVars, loops, ticksTaken, sincePause>>

\* run: the select statement evaluates sim.stopChan and sim.clockTicker.C
LoopSelect(l) ==
    /\ ~crashed
    /\ loops[l].pc = "for"
    /\ loops' = [loops EXCEPT ![l] = [pc |-> "select", stopCh |-> stopChan,
                                      tk |-> clockTicker]]
    /\ UNCHANGED <<decodeVars, chanVars, tickerVars, timeVars, eventVars, pauseVars,
                   startVars, ticksTaken, sincePause>>

\* Pause: sim.stopChan is evaluated and the caller blocks in the send
PauseCall ==
    /\ ~crashed
    /\ pauseCalls < MaxPause
    /\ pauseCalls' = pauseCalls + 1
    /\ pausers' = [pausers EXCEPT ![stopChan] = @ + 1]
    /\ UNCHANGED <<decodeVars, chanVars, tickerVars, timeVars, eventVars, startVars,
                   loops, ticksTaken, sincePause, pausesDone>>

PauseReturnsUnreceived(l, c) == c # Nil

\* Pause's send on the unbuffered channel c completes against loop l: the
\* loop is in its select, receiving from that channel
PauseHandOff(l, c) ==
    /\ c # Nil
    /\ loops[l].pc = "select"
    /\ loops[l].stopCh = c

\* case <-sim.stopChan: the hand-off; the Pause call returns
LoopRecvStop(l) ==
    /\ ~crashed
    /\ \E c \in Blocked :
        /\ PauseHandOff(l, c)
        /\ pausers' = [pausers EXCEPT ![c] = @ - 1]
    /\ loops' = [loops EXCEPT ![l].pc = "stop"]
    /\ pausesDone' = pausesDone + 1
    /\ sincePause' = TRUE
    /\ UNCHANGED <<decodeVars, chanVars, tickerVars, timeVars, eventVars, startVars,
                   ticksTaken, pauseCalls>>

StopCaseStaysInLoop == "for"

\* the stop case ends with return: the goroutine is over
StopCaseEnd == "done"

\* sim.clockTicker.Stop(), the log line and the return
LoopStopTicker(l) ==
    /\ ~crashed
    /\ loops[l].pc = "stop"
    /\ tickers' = [tickers EXCEPT ![clockTicker].running = FALSE]
    /\ loops' = [loops EXCEPT ![l].pc = StopCaseEnd]
    /\ UNCHANGED <<decodeVars, chanVars, clockTicker, fires, timeVars, eventVars,
                   pauseVars, startVars, ticksTaken, sincePause>>

\* case <-sim.clockTicker.C
LoopRecvTick(l) ==
    /\ ~crashed
    /\ loops[l].pc = "select"
    /\ tickers[loops[l].tk].buf = 1
    /\ tickers' = [tickers EXCEPT ![loops[l].tk].buf = 0]
    /\ loops' = [loops EXCEPT ![l].pc = "tick"]
    /\ ticksTaken' = ticksTaken + 1
    /\ UNCHANGED <<decodeVars, chanVars, clockTicker, fires, timeVars, eventVars,
                   pauseVars, startVars, sincePause>>

\* increaseTime: CurrentTime.Lock()
LoopLock(l) ==
    /\ ~crashed
    /\ loops[l].pc = "tick"
    /\ lockHolder = Nil
    /\ lockHolder' = l
    /\ loops' = [loops EXCEPT ![l].pc = "locked"]
    /\ UNCHANGED <<decodeVars, chanVars, tickerVars, CurrentTime, startTime, eventVars,
                   pauseVars, startVars, ticksTaken, sincePause>>

increaseTimeTwice(t, step) == t + step + step

\* increaseTime: the value CurrentTime.Add(step) stored in CurrentTime
increaseTime(t, step) == t + step

\* increaseTime: CurrentTime = CurrentTime.Add(step), then the deferred Unlock
LoopAdd(l) ==
    /\ ~crashed
    /\ loops[l].pc = "locked"
    /\ CurrentTime' = increaseTime(CurrentTime, timeStep)
    /\ lockHolder' = Nil
    /\ loops' = [loops EXCEPT ![l].pc = "send"]
    /\ UNCHANGED <<decodeVars, chanVars, tickerVars, startTime, eventVars, pauseVars,
                   startVars, ticksTaken, sincePause>>

\* what the unlocked read of sim.Options.CurrentTime in run can yield: the
\* field, or, while another loop is inside its locked write, also the value
\* being written or a mix of the two
CurrentTimeRead ==
    IF lockHolder = Nil
    THEN {CurrentTime}
    ELSE {CurrentTime, increaseTime(CurrentTime, timeStep), Torn}

sendEventWaitsForDelivery == Pending = {}

\* sendEvent only starts a goroutine: the caller never waits for a receiver
sendEventReady == TRUE

\* go func() { sim.EventChan <- evt }(): a goroutine that has not run yet
NewTask(t) == [payload |-> t, ch |-> Nil, rcvd |-> FALSE]

\* sim.sendEvent(&Event{ClockEvent, sim.Options.CurrentTime})
LoopSendEvent(l) ==
    /\ ~crashed
    /\ loops[l].pc = "send"
    /\ sendEventReady
    /\ \E t \in CurrentTimeRead : tasks' = Append(tasks, NewTask(t))
    /\ loops' = [loops EXCEPT ![l].pc = "for"]
    /\ UNCHANGED <<decodeVars, chanVars, tickerVars, timeVars, received, pauseVars,
                   startVars, ticksTaken, sincePause>>

\* the emission goroutine evaluates sim.EventChan and blocks in its send
TaskSend(i) ==
    /\ ~crashed
    /\ tasks[i].ch = Nil
    /\ tasks' = [tasks EXCEPT ![i].ch = EventChan]
    /\ UNCHANGED <<decodeVars, chanVars, tickerVars, timeVars, received, pauseVars,
                   startVars, loops, ticksTaken, sincePause>>

DeliverableAgain(i) == tasks[i].ch # Nil

DeliverableInOrder(i) ==
    /\ tasks[i].ch # Nil
    /\ ~tasks[i].rcvd
    /\ \A j \in 1..(i - 1) : tasks[j].rcvd

\* an emission goroutine blocked in its send: a receive on its channel may
\* take its event, whatever other goroutines are blocked on the channel
Deliverable(i) ==
    /\ tasks[i].ch # Nil
    /\ ~tasks[i].rcvd

\* the subscriber receives from the channel task i is blocked on
Receive(i) ==
    /\ ~crashed
    /\ Deliverable(i)
    /\ tasks' = [tasks EXCEPT ![i].rcvd = TRUE]
    /\ received' = Append(received, i)
    /\ UNCHANGED <<decodeVars, chanVars, tickerVars, timeVars, pauseVars, startVars,
                   loops, ticksTaken, sincePause>>

Next ==
    \/ Initialize
    \/ Start
    \/ PauseCall
    \/ \E t \in TickerIds : TimerFire(t)
    \/ \E l \in LoopIds : LoopSelect(l)
    \/ \E l \in LoopIds : LoopRecvStop(l)
    \/ \E l \in LoopIds : LoopStopTicker(l)
    \/ \E l \in LoopIds : LoopRecvTick(l)
    \/ \E l \in LoopIds : LoopLock(l)
    \/ \E l \in LoopIds : LoopAdd(l)
    \/ \E l \in LoopIds : LoopSendEvent(l)
    \/ \E i \in TaskIds : TaskSend(i)
    \/ \E i \in TaskIds : Receive(i)

\* the clock of a simulation whose scenario is not looked at
DecodeIdle ==
    /\ doc = Doc(TRUE, BaseItems, BaseRoutes, BaseTrains)
    /\ sim = ZeroSim

Init == ClockInit /\ DecodeIdle

Spec == Init /\ [][Next]_vars

\* the steps of clock loop l that the scheduler runs once they can be taken
LoopStep(l) ==
    /\ l \in LoopIds
    /\ \/ LoopSelect(l)
       \/ LoopStopTicker(l)
       \/ LoopLock(l)
       \/ LoopAdd(l)
       \/ LoopSendEvent(l)

\* select takes the stop case: chosen at random among the ready cases, so
\* it is not passed over for ever when it is ready again and again
StopCase(l) == l \in LoopIds /\ LoopRecvStop(l)

\* select takes the tick case
TickCase(l) == l \in LoopIds /\ LoopRecvTick(l)

\* emission goroutine i runs up to its send
EmitStep(i) == i \in TaskIds /\ TaskSend(i)

\* the subscriber keeps receiving from the channel goroutine i sends on
SubscriberStep(i) == i \in TaskIds /\ Receive(i)

\* the clock under a fair scheduler, with a subscriber that keeps receiving
Fairness ==
    /\ \A l \in 1..MaxStart :
            WF_vars(LoopStep(l)) /\ SF_vars(StopCase(l)) /\ SF_vars(TickCase(l))
    /\ \A i \in 1..MaxFires : WF_vars(EmitStep(i)) /\ WF_vars(SubscriberStep(i))

FairSpec == Init /\ [][Next]_vars /\ Fairness

\* the decoder, on each document of Docs
DecodeInit ==
    /\ doc \in Docs
    /\ sim = ZeroSim

InitDecode == ClockInit /\ DecodeInit

NextDecode == UnmarshalJSON

SpecDecode == InitDecode /\ [][NextDecode]_vars

\* ------------------------------------------------------------------------
\* Properties of the clock
\* ------------------------------------------------------------------------

\* C1: a clock loop exists only after Initialize has allocated both the
\* event channel and the stop channel; a Start call made while either is
\* unallocated panics, creates no ticker and launches no loop.
C1_ClockNeedsInitialize ==
    /\ [](loops # <<>> => (EventChan # Nil /\ stopChan # Nil /\ messages > 0))
    /\ [][(startCalls' # startCalls /\ (EventChan = Nil \/ stopChan = Nil))
            => (crashed' /\ UNCHANGED <<clockTicker, tickers, loops>>)]_vars
    /\ [](crashed => (tickers = <<>> /\ loops = <<>> /\ clockTicker = Nil))

C1_Witness == crashed /\ startCalls = 1 /\ messages = 0

\* the ticks whose processing is complete: received, time increased, event
\* handed to sendEvent
Processed == ticksTaken - Cardinality({l \in LoopIds : loops[l].pc \in {"tick", "locked", "send"}})

\* C2: with a single Start after Initialize, once the loop has processed n
\* ticks the current time is the start time plus n steps of 500 ms, n events
\* have been emitted, the k-th carrying start time + k * 500 ms, and each of
\* them is pending on or was received from the event channel.
C2_TicksAdvanceTime ==
    (startCalls = 1 /\ ~crashed /\ Processed = ticksTaken) =>
        /\ CurrentTime = startTime + ticksTaken * 500
        /\ Len(tasks) = ticksTaken
        /\ \A k \in 1..Len(tasks) : emitted[k] = startTime + k * 500
        /\ Cardinality(Pending) + Len(received) = ticksTaken

C2_Witness ==
    /\ startCalls = 1
    /\ ticksTaken = 2
    /\ loops[1].pc = "select"
    /\ CurrentTime = startTime + 1000
    /\ Len(tasks) = 2

\* a Pause has returned after stopping the loop of a simulation whose Start
\* calls alternate with returned Pause calls, and Start was not called since
Paused == sincePause /\ alternating

\* C3 as stated: once Pause has returned, no further event arrives on the
\* event channel until the next Start.
C3_NoEventArrivesAfterPause ==
    [][Paused => received' = received]_vars

\* C3 as amended: once Pause has returned, no further tick is processed
\* until the next Start: the current time stays as it is and no new event is
\* emitted (events emitted before the stop may still arrive).
C3_NoTickAfterPause ==
    [][Paused => /\ CurrentTime' = CurrentTime
                 /\ ticksTaken' = ticksTaken
                 /\ Len(tasks') = Len(tasks)]_vars

C3_Witness ==
    /\ Paused
    /\ Pending # {}
    /\ \E l \in LoopIds : loops[l].pc = "done"
    /\ \E t \in TickerIds : tickers[t].buf = 1

\* C4: in a simulation whose Start calls alternate with returned Pause
\* calls, the loop launched by the latest Start waits on a ticker that is
\* still running.
C4_RestartedTimerRuns ==
    (alternating /\ ~sincePause) =>
        \A l \in LoopIds : loops[l].pc = "select" => tickers[loops[l].tk].running

\* C5: a Pause call returns only in a step in which a loop waiting in its
\* select receives the stop signal; while an initialized simulation has no
\* running loop and Start is not called, no Pause call returns and nothing
\* fails.
C5_PauseReturnsOnlyByHandOff ==
    [][/\ pausesDone' # pausesDone =>
            /\ pausesDone' = pausesDone + 1
            /\ \E l \in LoopIds : loops[l].pc = "select" /\ loops'[l].pc = "stop"
       /\ (stopChan # Nil /\ ActiveLoops = {} /\ startCalls' = startCalls) =>
            /\ pausesDone' = pausesDone
            /\ \A c \in Chans : pausers'[c] >= pausers[c]
            /\ crashed' = crashed]_vars

C5_Witness ==
    /\ loops # <<>>
    /\ ActiveLoops = {}
    /\ pausers[stopChan] > 0
    /\ pausesDone = 1
    /\ ~crashed

\* C6: whatever the subscriber does, a loop that has increased the time can
\* always emit its event and go back to its select; the emission tasks
\* outstanding are the events emitted and not yet received; with no receive
\* at all, every tick processed has advanced the time by 500 ms and left one
\* more task outstanding.
C6_SubscriberCannotBlockLoop ==
    /\ \A l \in LoopIds : (loops[l].pc = "send" /\ ~crashed) => ENABLED LoopSendEvent(l)
    /\ Cardinality(Pending) = Len(tasks) - Len(received)
    /\ received = <<>> =>
        /\ Cardinality(Pending) = Processed
        /\ CurrentTime = startTime + 500 * (Processed + Cardinality({l \in LoopIds : loops[l].pc = "send"}))

C6_Witness ==
    /\ received = <<>>
    /\ Cardinality(Pending) = MaxFires
    /\ CurrentTime = startTime + 500 * MaxFires
    /\ \E l \in LoopIds : loops[l].pc = "select"

\* ------------------------------------------------------------------------
\* Properties of the decoder
\* ------------------------------------------------------------------------
\* nothing of the stages after network validation has happened
NoLaterStage ==
    /\ sim.assigned = {}
    /\ sim.Routes = <<>>
    /\ sim.initialized = {}
    /\ sim.Trains = <<>>

\* C7: decoding is fail-fast: no stage's error is passed over, and the call
\* returns the error of the stage that failed without going on to later
\* items, network validation or the later stages.
C7_DecodeFailsFast ==
    sim.returned =>
        /\ sim.dropped = {}
        /\ sim.err.kind \in {"envelope", "read", "place", "unknown"} =>
                ~sim.validated /\ NoLaterStage
        /\ sim.err.kind \in {"read", "place", "unknown"} =>
                sim.visited[Len(sim.visited)] = sim.err.key
        /\ sim.err.kind = "ItemNotLinkedAtError" => NoLaterStage
        /\ sim.err.kind = "route" =>
                sim.assigned \cap {"TrainTypes", "Services", "Trains", "MessageLogger"} = {}

\* an entry that carries a discriminator other than the eight known ones
UnknownType(e) == e.readable /\ e.type \notin TrackTypes \cup {"Place"}

HasUnknownType == \E k \in DOMAIN doc.trackItems : UnknownType(doc.trackItems[k])

\* an entry at which the track-item loop returns another error
FailsOtherwise(e) == ~e.readable \/ (e.type = "Place" /\ ~e.body)

\* C8 as stated: a document (one whose envelope decodes) with an entry of
\* unknown type is answered with the "unknown TrackItem type" error, before
\* network validation and before any later stage.
C8_UnknownTypeReported ==
    (sim.returned /\ doc.envelope /\ HasUnknownType) =>
        /\ sim.err.kind = "unknown"
        /\ ~sim.validated
        /\ NoLaterStage

\* C8 as amended: a document with an entry of unknown type is answered with
\* an error, before network validation and before any later stage; the error
\* is the "unknown TrackItem type" error of such an entry unless the
\* envelope does not decode or the loop first meets an entry that is not an
\* object or a Place that does not decode.
C8_UnknownTypeAborts ==
    (sim.returned /\ HasUnknownType) =>
        /\ sim.err.kind \in {"unknown", "envelope", "read", "place"}
        /\ ~sim.validated
        /\ NoLaterStage
        /\ sim.err.kind = "unknown" => UnknownType(doc.trackItems[sim.err.key])
        /\ sim.err.kind = "envelope" => ~doc.envelope
        /\ sim.err.kind \in {"read", "place"} => FailsOtherwise(doc.trackItems[sim.err.key])
        /\ (doc.envelope /\ \A k \in DOMAIN doc.trackItems : ~FailsOtherwise(doc.trackItems[k]))
                => sim.err.kind = "unknown"

C8_Witness ==
    /\ sim.returned
    /\ HasUnknownType
    /\ sim.err.kind = "unknown"
    /\ Len(sim.visited) = 2
    /\ sim.TrackItems # <<>>

\* the rule of network validation for one track item
Linked(ti) ==
    CASE ti.kind \in {"place", "platformItem", "textItem"} -> TRUE
      [] ti.kind = "pointsItem" -> ti.rev /\ ti.next /\ ti.prev
      [] ti.kind \in {"lineItem", "invisibleLinkItem", "signalItem"} -> ti.next /\ ti.prev
      [] ti.kind = "endItem" -> ti.prev

\* C9: network validation returns no error exactly when every track item of
\* the mapping satisfies the rule of its kind; its error is returned as it
\* is, before anything of the later stages is assigned.
C9_ValidationRule ==
    (sim.returned /\ sim.validated) =>
        /\ sim.linkErr = NoError <=>
                \A id \in DOMAIN sim.TrackItems : Linked(sim.TrackItems[id])
        /\ sim.linkErr # NoError =>
                /\ sim.err = sim.linkErr
                /\ sim.err.kind = "ItemNotLinkedAtError"
                /\ NoLaterStage
        /\ sim.linkErr = NoError => "Options" \in sim.assigned

C9_Witness ==
    /\ sim.returned
    /\ sim.validated
    /\ sim.linkErr # NoError
    /\ \E i, j \in DOMAIN sim.TrackItems :
        /\ Linked(sim.TrackItems[i])
        /\ sim.TrackItems[i].kind = "pointsItem"
        /\ ~Linked(sim.TrackItems[j])
        /\ sim.TrackItems[j].kind = "endItem"

\* the connection points a kind requires, in the order they are checked
CheckOrder(kind) ==
    CASE kind = "pointsItem" -> <<"reverse", "end", "origin">>
      [] kind \in {"lineItem", "invisibleLinkItem", "signalItem"} -> <<"end", "origin">>
      [] kind = "endItem" -> <<"origin">>
      [] OTHER -> <<>>

Resolved(ti, pt) ==
    CASE pt = "reverse" -> ti.rev
      [] pt = "end" -> ti.next
      [] pt = "origin" -> ti.prev

\* C10: a failed validation returns one link-validation error, naming an item
\* of the mapping that breaks its rule and the first unresolved connection
\* point in that item's check order; so a points item with no reverse link is
\* reported at its reverse point whatever its forward link, and a line item
\* with no forward link at its end point.
C10_FirstUnresolvedPoint ==
    (sim.returned /\ sim.validated /\ sim.linkErr # NoError) =>
        /\ sim.linkErr.kind = "ItemNotLinkedAtError"
        /\ sim.err = sim.linkErr
        /\ sim.linkErr.id \in DOMAIN sim.TrackItems
        /\ LET ti == sim.TrackItems[sim.linkErr.id]
               order == CheckOrder(ti.kind)
           IN  /\ ~Linked(ti)
               /\ sim.linkErr.key = ti.key
               /\ \E n \in DOMAIN order :
                    /\ order[n] = sim.linkErr.pt
                    /\ ~Resolved(ti, order[n])
                    /\ \A m \in 1..(n - 1) : Resolved(ti, order[m])
               /\ (ti.kind = "pointsItem" /\ ~ti.rev) => sim.linkErr.pt = "reverse"
               /\ (ti.kind = "lineItem" /\ ~ti.next) => sim.linkErr.pt = "end"

C10_Witness ==
    /\ sim.returned
    /\ sim.linkErr.kind = "ItemNotLinkedAtError"
    /\ sim.linkErr.pt = "reverse"
    /\ sim.TrackItems[sim.linkErr.id].kind = "pointsItem"
    /\ sim.TrackItems[sim.linkErr.id].next
    /\ Cardinality(DOMAIN sim.TrackItems) = 2

\* how many times train t occurs in the sequence q
Count(q, t) == Cardinality({i \in DOMAIN q : q[i] = t})

HasStops(t) == Len(Lines(t)) > 0

Processing == {l \in LoopIds : loops[l].pc \in {"tick", "locked", "send"}}

\* C12: over any sequence of Initialize, Start and Pause calls the current
\* time never decreases and changes only in steps of +500 ms, and the
\* processing of a tick is never interleaved with the processing of another.
C12_TicksOneAtATime ==
    /\ [][CurrentTime' = CurrentTime \/ CurrentTime' = CurrentTime + 500]_vars
    /\ [](Cardinality(Processing) <= 1)

\* the clock-loop tasks that exist: started and not returned
Running == {l \in LoopIds : loops[l].pc # "done"}

\* C13: at every moment at most one clock-loop task exists, whatever Start
\* and Pause calls are made after Initialize.
C13_AtMostOneLoop == Cardinality(Running) <= 1

\* C14: events are emitted in strictly increasing payload order (in a
\* simulation whose Start calls alternate with returned Pause calls), and
\* delivery is not ordered by emission: any event whose task is blocked on
\* the channel can be the next one received, whether or not the events
\* emitted before it were received.
C14_DeliveryUnordered ==
    /\ alternating =>
            \A i, j \in TaskIds : i < j => tasks[i].payload < tasks[j].payload
    /\ \A i \in TaskIds :
            (~crashed /\ tasks[i].ch # Nil /\ ~tasks[i].rcvd) => ENABLED Receive(i)

C14_Witness ==
    /\ alternating
    /\ received = <<2, 1>>
    /\ tasks[1].payload < tasks[2].payload

\* C15: Pause cancels no emission: an emitted event stays as it is, pending
\* until the subscriber receives it, through the stop case and after Pause
\* has returned; each emitted event is received at most once; and with a
\* subscriber that keeps receiving, each is eventually received.
C15_EmissionsSurvivePause ==
    /\ [][\A i \in TaskIds :
            /\ i \in DOMAIN tasks'
            /\ tasks'[i].payload = tasks[i].payload
            /\ tasks[i].rcvd => tasks'[i] = tasks[i]
            /\ (tasks'[i].rcvd /\ ~tasks[i].rcvd) => received' = Append(received, i)]_vars
    /\ [][(\/ pausesDone' # pausesDone
            \/ \E l \in LoopIds : loops[l].pc = "stop" /\ loops'[l].pc = "done")
            => (tasks' = tasks /\ received' = received)]_vars
    /\ [](\A i \in TaskIds :
            /\ Count(received, i) <= 1
            /\ tasks[i].rcvd <=> Count(received, i) = 1)
    /\ \A i \in 1..MaxFires :
            (i \in TaskIds) ~> (i \in TaskIds /\ tasks[i].rcvd)

C15_Witness ==
    /\ pausesDone = 1
    /\ Running = {}
    /\ Cardinality(Pending) = 1
    /\ Len(received) = 1

\* C16: the current time is written only by a clock loop holding the time
\* lock; the lock has at most one holder, from before the read-add-write of
\* increaseTime until its return; every access of the loop to the current
\* time, the read that builds the event payload included, is made under
\* the lock, so that no partially written value is ever read.
C16_TimeAccessUnderLock ==
    /\ [][CurrentTime' # CurrentTime =>
            /\ lockHolder \in LoopIds
            /\ loops[lockHolder].pc = "locked"
            /\ lockHolder' = Nil]_vars
    /\ [](lockHolder # Nil => (lockHolder \in LoopIds /\ loops[lockHolder].pc = "locked"))
    /\ [](\A l \in LoopIds : loops[l].pc = "locked" => lockHolder = l)
    /\ [][\A l \in LoopIds :
            (loops[l].pc = "send" /\ loops'[l].pc # "send") => lockHolder = l]_vars
    /\ [](\A i \in TaskIds : tasks[i].payload # Torn)

\* C17: under fair scheduling, a Pause blocked on the stop channel while
\* exactly one clock loop is running eventually returns (in a simulation
\* initialized once), whether the loop waits in its select or is processing
\* a tick; the loop that took the signal (the only one running, Start calls
\* alternating with returned Pause calls) then halts its timer, the one
\* created by the Start call that launched it, and terminates without
\* processing any further tick.
C17_PauseStopsTheLoop ==
    /\ \A n \in 0..(MaxPause - 1) :
            (/\ messages = 1
             /\ pausers[stopChan] = 1
             /\ pausesDone = n
             /\ Cardinality(ActiveLoops) = 1)
                ~> (pausesDone > n \/ messages > 1)
    /\ [][\A l \in LoopIds :
            (alternating /\ loops[l].pc = "stop" /\ loops'[l].pc # "stop") =>
                (loops'[l].pc = "done" /\ ~tickers'[l].running)]_vars
    /\ [][\A l \in LoopIds :
            loops[l].pc \in {"stop", "done"} => loops'[l].pc \in {"stop", "done"}]_vars

\* C18: the timer a clock loop halts in its stop case is the one created by
\* the Start call that launched the loop; a terminating loop never halts
\* the timer of a later Start, even one that runs between the return of
\* Pause and the loop's halt step; and no timer is left running without
\* its loop.
C18_LoopHaltsOwnTimer ==
    /\ [][\A l \in LoopIds : (loops[l].pc = "stop" /\ loops'[l].pc = "done") =>
            /\ tickers[l].running /\ ~tickers'[l].running
            /\ \A t \in TickerIds : t > l => tickers'[t] = tickers[t]]_vars
    /\ [](\A t \in TickerIds : tickers[t].running => loops[t].pc # "done")

\* C19: whatever Start and Pause calls are made after Initialize, between
\* the return of a Pause call and the next Start call the current time
\* does not change and no emission task is spawned.
C19_FrozenBetweenPauseAndStart ==
    [][(sincePause /\ startCalls' = startCalls) =>
            /\ CurrentTime' = CurrentTime
            /\ Len(tasks') = Len(tasks)]_vars

====
